---------------------------- MODULE Spec2Model ----------------------------
(***************************************************************************)
(* DrugScanner: the two-step capture / review / confirm wizard of the      *)
(* front-end script (src/unnamed/part_001), with its IndexedDB session     *)
(* and credential records; and, from src/api/identify.js, the page script  *)
(* of the lookup variant, the lookup handler of the proxy endpoint and the  *)
(* service worker.                                                          *)
(* Each has its own specification; a specification leaves the state of     *)
(* the others where Init put it.                                           *)
(*                                                                         *)
(* JavaScript runs every handler to completion up to its next await, so    *)
(* each action below is one such segment: a DOM event handler up to its    *)
(* first await, or the continuation that runs when the awaited promise     *)
(* settles.  A continuation of these handlers keeps no local state (it     *)
(* reads the module-level variables again), so the suspended handlers of   *)
(* one kind are counted, not listed.                                       *)
(*                                                                         *)
(* A session put or delete is applied when it is issued: IndexedDB orders  *)
(* every later transaction on the store after it.  Opening the database    *)
(* can fail; each open draws its outcome.                                  *)
(*                                                                         *)
(* A button can be clicked while the script shows it and no file dialog    *)
(* is open.  The loading overlay and the settings modal are styled by the  *)
(* page, not by the script, and are not taken to block clicks.             *)
(***************************************************************************)
EXTENDS Integers, Sequences, FiniteSets, TLC

\* ---------------------------------------------------------------- bounds
\* confirm clicks explored per page session
MaxConfirms == 3
\* reset handlers of one kind suspended at the same time
MaxPending == 1
\* submit clicks explored per load of the lookup variant's page
MaxSubmits == 2
\* fetch events explored per service worker
MaxEvents == 3

\* ------------------------------------------------------------- constants
\* number of capture steps: `imageCounter >= 2`
N == 2
\* files the user can pick
Files == {"f1"}
NoFile == "none"
\* the image's error event fired (no handler is registered for it)
Failed == "failed"
NoDraft == "null"
NoKey == "nokey"
NoSession == [present |-> FALSE]
\* confidence threshold of displayResult, in tenths (0.4)
ConfidenceMin == 4
\* confidence values (tenths) a response can carry; -1: field missing
Confidences == {-1, 3, 4}

VARIABLES
    imageCounter,      \* let imageCounter
    capturedImages,    \* let capturedImages
    currentDraft,      \* let currentDraft
    isProcessingFile,  \* let isProcessingFile
    compressing,       \* the file compressImage is working on, NoFile, or Failed
    picker,            \* "closed" | "open": the file dialog fileInput.click() opens
    ui,                \* visibility of the DOM elements the handlers toggle
    saving,            \* confirm handlers suspended in `await saveSession()`
    procKey,           \* processImages calls suspended in `await getKey()`
    procGen,           \* processImages calls suspended in `await model.generateContent()`
    resetL,            \* scanButton listeners suspended in `await clearSession()`
    resetO,            \* scanButton.onclick handlers suspended in `await clearSession()`
    geminiKey,         \* settings store, key 'geminiKey'
    session,           \* session store, key SESSION_ID
    procStarts,        \* history: processImages calls since the page loaded
    extractCalls,      \* history: generateContent calls since the page loaded
    draftPushes,       \* history: pushes of the draft under review (0 without one)
    confirmClicks,     \* history: confirm clicks that pushed, since the page loaded
    retaken,           \* history: a retake happened since the last confirm finished
    last,              \* history: the wizard's last handler segment that ran
    front,             \* the page of the lookup variant: its globals, DOM and store
    display,           \* displayResult on its own: the parsed data, then the view
    proxy,             \* one request to the proxy endpoint: the handler's progress
    canvas,            \* compressImage's scaling on its own: the image, then the canvas
    trip,              \* history of a saveSession / loadSession round trip
    worker             \* the service worker: its cache and the fetch event it handles

vars == <<imageCounter, capturedImages, currentDraft, isProcessingFile, compressing,
          picker, ui, saving, procKey, procGen, resetL, resetO, geminiKey,
          session, procStarts, extractCalls, draftPushes, confirmClicks, retaken, last,
          front, display, proxy, canvas, trip, worker>>

\* the wizard's state, which a step of another program leaves alone
wizard == <<imageCounter, capturedImages, currentDraft, isProcessingFile, compressing,
            picker, ui, saving, procKey, procGen, resetL, resetO, geminiKey,
            session, procStarts, extractCalls, draftPushes, confirmClicks, retaken, last>>

\* the state of the other programs, which a wizard step leaves alone
others == <<front, display, proxy, canvas, trip, worker>>

memory == <<imageCounter, capturedImages, currentDraft, isProcessingFile>>
stores == <<geminiKey, session>>
pending == <<saving, procKey, procGen, resetL, resetO>>
history == <<procStarts, extractCalls, draftPushes, confirmClicks, retaken>>

\* ------------------------------------------------------------- helpers
\* canvas.toDataURL('image/jpeg', 0.8): the payload of file f
DataUri(f) == "data:image/jpeg;base64," \o f

\* the page once the DOMContentLoaded handler has run showCurrentStep()
InitialUi == [scan |-> TRUE, review |-> FALSE, loading |-> FALSE,
              resultsShown |-> FALSE, content |-> "empty", onclick |-> FALSE]

showCurrentStep(u, counter) ==
    LET u1 == [u EXCEPT !.review = FALSE, !.loading = FALSE, !.resultsShown = FALSE]
    IN IF counter >= N THEN u1 ELSE [u1 EXCEPT !.scan = TRUE]

showReview(u) == [u EXCEPT !.scan = FALSE, !.review = TRUE]

\* the record saveSession puts
SessionRecord(counter, images) ==
    [present |-> TRUE, imageCounter |-> counter, capturedImages |-> images]

\* a click reaches the page only while the native file dialog is not open
CanClick == picker # "open"

\* displayResult is not running
NoDisplay == [stage |-> "none"]

\* no round trip is followed
NoTrip == [phase |-> "none"]

\* no image is being scaled
NoImage == [stage |-> "none"]

\* no request has reached the proxy endpoint
NoRequest == [stage |-> "none"]

\* no service worker is registered
NoWorker == [stage |-> "none"]

\* `if (!apiKey)`: a stored or entered key is a non-empty string
\* mutant: the check for a missing key always passes
hasKeyAlways(k) == TRUE

hasKey(k) == k # NoKey

\* the lookup variant's page: not open
FrontClosed == [loaded |-> FALSE]

\* the lookup variant's page before its script has run
FrontPage ==
    [loaded |-> TRUE,
     apiKey |-> NoKey,           \* let apiKey
     storedKey |-> NoKey,        \* settings store, key 'apiKey'
     step |-> 0,                 \* let step
     capturedImages |-> <<>>,    \* const capturedImages
     currentStream |-> "null",   \* let currentStream: "null" | "live" | "stopped"
     modal |-> FALSE,            \* apiModal shown
     start |-> TRUE,             \* startScanBtn's parent shown
     scan |-> FALSE,             \* scanContainer shown
     preview |-> FALSE,          \* previewContainer shown
     result |-> FALSE,           \* resultContainer shown
     loading |-> FALSE,          \* loadingOverlay shown
     content |-> "empty",        \* resultContent: "empty" | "OK" | "Not_Found"
     initP |-> 0,                \* init() suspended in `await getApiKey()`
     saveP |-> 0,                \* save handlers suspended in `await setApiKey()`
     camP |-> 0,                 \* startCamera calls suspended in getUserMedia
     importP |-> 0,              \* submit handlers suspended in the SDK import
     genP |-> 0,                 \* submit handlers suspended in generateContent
     lookupP |-> 0,              \* submit handlers suspended in fetch('/api/identify')
     extractCalls |-> 0,         \* history: generateContent calls since the load
     submits |-> 0,              \* history: submit clicks that went on, since the load
     last |-> "none"]            \* history: the last handler segment that ran

\* the page as its script leaves it: init() is suspended in getApiKey()
FrontLoaded(key) ==
    [FrontPage EXCEPT !.storedKey = key, !.initP = 1, !.last = "Load"]

\* ------------------------------------------------------------- page load
\* mutant: the load restores the persisted session, as loadSession would
PageStateRestoring(name) ==
    /\ imageCounter' = IF session.present THEN session.imageCounter ELSE 0
    /\ capturedImages' = IF session.present THEN session.capturedImages ELSE <<>>
    /\ currentDraft' = NoDraft
    /\ isProcessingFile' = FALSE
    /\ compressing' = NoFile
    /\ picker' = "closed"
    /\ ui' = InitialUi
    /\ saving' = 0 /\ procKey' = 0 /\ procGen' = 0 /\ resetL' = 0 /\ resetO' = 0
    /\ procStarts' = 0 /\ extractCalls' = 0 /\ draftPushes' = 0
    /\ confirmClicks' = 0 /\ retaken' = FALSE
    /\ last' = name

\* the module-level `let`s, and the DOMContentLoaded handler, which only
\* reads the key and runs showCurrentStep(); the stores survive
PageState(name) ==
    /\ imageCounter' = 0
    /\ capturedImages' = <<>>
    /\ currentDraft' = NoDraft
    /\ isProcessingFile' = FALSE
    /\ compressing' = NoFile
    /\ picker' = "closed"
    /\ ui' = InitialUi
    /\ saving' = 0 /\ procKey' = 0 /\ procGen' = 0 /\ resetL' = 0 /\ resetO' = 0
    /\ procStarts' = 0 /\ extractCalls' = 0 /\ draftPushes' = 0
    /\ confirmClicks' = 0 /\ retaken' = FALSE
    /\ last' = name

WizardInit ==
    /\ imageCounter = 0
    /\ capturedImages = <<>>
    /\ currentDraft = NoDraft
    /\ isProcessingFile = FALSE
    /\ compressing = NoFile
    /\ picker = "closed"
    /\ ui = InitialUi
    /\ saving = 0 /\ procKey = 0 /\ procGen = 0 /\ resetL = 0 /\ resetO = 0
    /\ geminiKey \in {NoKey, "k1"}
    /\ session = NoSession
    /\ procStarts = 0 /\ extractCalls = 0 /\ draftPushes = 0
    /\ confirmClicks = 0 /\ retaken = FALSE
    /\ last = "PageLoad"

\* the wizard page is open; the page of the lookup variant is not
Init ==
    /\ WizardInit
    /\ front = FrontClosed
    /\ display = NoDisplay
    /\ proxy = NoRequest
    /\ canvas = NoImage
    /\ trip = NoTrip
    /\ worker = NoWorker

\* the user reloads or reopens the page
PageLoad ==
    /\ PageState("PageLoad")
    /\ UNCHANGED stores

\* saveKeyButton.onclick with a non-empty value
SaveKey(ok) ==
    /\ CanClick
    /\ geminiKey' = IF ok THEN "k1" ELSE geminiKey
    /\ UNCHANGED <<memory, compressing, picker, ui, pending, session, history, last>>

\* deleteKeyButton.onclick
DeleteKey(ok) ==
    /\ CanClick
    /\ geminiKey' = IF ok THEN NoKey ELSE geminiKey
    /\ UNCHANGED <<memory, compressing, picker, ui, pending, session, history, last>>


\* ------------------------------------------------------------ acquisition
\* scanButton.onclick as processImages assigns it: `await clearSession()`
StartOnclick == IF ui.onclick THEN resetO + 1 ELSE resetO

\* scanButton click: the listener, then the onclick handler when one is set.
\* With imageCounter >= 2 the listener starts the reset flow; otherwise it
\* returns while a file is processed, or opens the file dialog (through a
\* 50 ms timer)
ScanClick ==
    /\ ui.scan
    /\ CanClick
    /\ StartOnclick <= MaxPending
    /\ IF imageCounter >= N
       THEN /\ resetL < MaxPending
            /\ resetL' = resetL + 1
            /\ picker' = picker
            /\ last' = "ScanClickReset"
       ELSE /\ resetL' = resetL
            /\ picker' = IF isProcessingFile THEN picker ELSE "open"
            /\ last' = "ScanClick"
    /\ resetO' = StartOnclick
    /\ UNCHANGED <<memory, compressing, ui, saving, procKey, procGen, stores, history>>

\* the dialog is dismissed without a file: no change event, or no files[0]
PickCancel ==
    /\ picker = "open"
    /\ picker' = "closed"
    /\ last' = "PickCancel"
    /\ UNCHANGED <<memory, compressing, ui, pending, stores, history>>

\* fileInput change with a file, up to `await compressImage(file)`
FileChange(f) ==
    /\ picker = "open"
    /\ picker' = "closed"
    /\ IF isProcessingFile
       THEN /\ UNCHANGED <<isProcessingFile, compressing, ui>>
            /\ last' = "FileChangeIgnored"
       ELSE /\ isProcessingFile' = TRUE
            /\ compressing' = f
            /\ ui' = [ui EXCEPT !.loading = TRUE]
            /\ last' = "FileChange"
    /\ UNCHANGED <<imageCounter, capturedImages, currentDraft, pending, stores, history>>

\* img.onload: compressImage resolves; the handler's try and finally run
CompressDone ==
    /\ compressing \in Files
    /\ currentDraft' = DataUri(compressing)
    /\ ui' = showReview([ui EXCEPT !.loading = FALSE])
    /\ isProcessingFile' = FALSE
    /\ compressing' = NoFile
    /\ draftPushes' = 0
    /\ last' = "CompressDone"
    /\ UNCHANGED <<imageCounter, capturedImages, picker, pending, stores,
                   procStarts, extractCalls, confirmClicks, retaken>>

\* the file cannot be read or decoded: reader.onerror and img.onerror have no
\* handler and the promise has no reject, so compressImage never settles
ImageError ==
    /\ compressing \in Files
    /\ compressing' = Failed
    /\ last' = "ImageError"
    /\ UNCHANGED <<memory, picker, ui, pending, stores, history>>

\* ----------------------------------------------------------------- review
\* mutant: the retake restarts the wizard at step 0
retakeHandlerRestarts ==
    /\ currentDraft' = NoDraft
    /\ imageCounter' = 0
    /\ capturedImages' = <<>>
    /\ ui' = showCurrentStep(ui, 0)

\* retakeButton click
retakeHandler ==
    /\ currentDraft' = NoDraft
    /\ ui' = showCurrentStep(ui, imageCounter)
    /\ UNCHANGED <<imageCounter, capturedImages>>

RetakeClick ==
    /\ ui.review
    /\ CanClick
    /\ retakeHandler
    /\ retaken' = TRUE
    /\ draftPushes' = 0
    /\ last' = "Retake"
    /\ UNCHANGED <<isProcessingFile, compressing, picker, pending, stores,
                   procStarts, extractCalls, confirmClicks>>

\* confirmButton click up to `await saveSession()` (suspended in openDB)
confirmHandler ==
    /\ capturedImages' = Append(capturedImages, currentDraft)
    /\ imageCounter' = imageCounter + 1
    /\ saving' = saving + 1
    /\ UNCHANGED currentDraft

ConfirmClick ==
    /\ ui.review
    /\ CanClick
    /\ IF currentDraft = NoDraft
       THEN /\ UNCHANGED <<imageCounter, capturedImages, currentDraft, saving,
                           draftPushes, confirmClicks>>
            /\ last' = "ConfirmIgnored"
       ELSE /\ confirmClicks < MaxConfirms
            /\ confirmHandler
            /\ draftPushes' = draftPushes + 1
            /\ confirmClicks' = confirmClicks + 1
            /\ last' = "ConfirmClick"
    /\ UNCHANGED <<isProcessingFile, compressing, picker, ui, procKey, procGen, resetL,
                   resetO, stores, procStarts, extractCalls, retaken>>

\* saveSession after openDB: puts { imageCounter, capturedImages } as they are
\* now; a failed open or put is logged and swallowed
saveSession(ok) ==
    session' = IF ok THEN SessionRecord(imageCounter, capturedImages) ELSE session

\* the sync head of processImages, up to `await getKey()`
processImagesStart(u) == [u EXCEPT !.scan = FALSE, !.review = FALSE, !.loading = TRUE]

\* mutant: a failed save ends the confirm handler
ConfirmResumeAborts(ok) ==
    /\ saving > 0
    /\ saving' = saving - 1
    /\ saveSession(ok)
    /\ IF ok
       THEN /\ currentDraft' = NoDraft
            /\ IF imageCounter >= N
               THEN /\ ui' = processImagesStart(ui)
                    /\ procKey' = procKey + 1
                    /\ procStarts' = procStarts + 1
               ELSE /\ ui' = showCurrentStep(ui, imageCounter)
                    /\ UNCHANGED <<procKey, procStarts>>
       ELSE UNCHANGED <<currentDraft, ui, procKey, procStarts>>
    /\ retaken' = FALSE
    /\ draftPushes' = 0
    /\ last' = IF ok THEN "ConfirmSaved" ELSE "ConfirmSaveFailed"
    /\ UNCHANGED <<imageCounter, capturedImages, isProcessingFile, compressing, picker,
                   procGen, resetL, resetO, geminiKey, extractCalls, confirmClicks>>

\* saveSession finishes and the confirm handler continues
ConfirmResume(ok) ==
    /\ saving > 0
    /\ saving' = saving - 1
    /\ saveSession(ok)
    /\ currentDraft' = NoDraft
    /\ IF imageCounter >= N
       THEN /\ ui' = processImagesStart(ui)
            /\ procKey' = procKey + 1
            /\ procStarts' = procStarts + 1
       ELSE /\ ui' = showCurrentStep(ui, imageCounter)
            /\ UNCHANGED <<procKey, procStarts>>
    /\ retaken' = FALSE
    /\ draftPushes' = 0
    /\ last' = IF ok THEN "ConfirmSaved" ELSE "ConfirmSaveFailed"
    /\ UNCHANGED <<imageCounter, capturedImages, isProcessingFile, compressing, picker,
                   procGen, resetL, resetO, geminiKey, extractCalls, confirmClicks>>

\* ----------------------------------------------------------- finalization
\* what generateContent can answer: a rejection, text that JSON.parse refuses,
\* or parsed data (null, or an object with or without identity / details)
Rejected == [kind |-> "reject", hasData |-> FALSE, hasIdentity |-> FALSE,
             confidence |-> -1, hasDetails |-> FALSE]
BadJson == [Rejected EXCEPT !.kind = "badjson"]
JsonNull == [Rejected EXCEPT !.kind = "json"]
Responses ==
    {Rejected, BadJson, JsonNull}
    \cup {[kind |-> "json", hasData |-> TRUE, hasIdentity |-> FALSE,
           confidence |-> -1, hasDetails |-> d] : d \in BOOLEAN}
    \cup {[kind |-> "json", hasData |-> TRUE, hasIdentity |-> TRUE,
           confidence |-> c, hasDetails |-> d] : c \in Confidences, d \in BOOLEAN}

\* mutant: the threshold itself counts as below
displayResultInclusive(data) ==
    IF \/ ~data.hasData
       \/ ~data.hasIdentity
       \/ (data.confidence # -1 /\ data.confidence <= ConfidenceMin)
    THEN "notIdentified"
    ELSE IF ~data.hasDetails THEN "throws" ELSE "structured"

\* displayResult: the view it renders, or "throws" when it reads details.usage
\* of a response without details (`undefined < 0.4` is false)
displayResult(data) ==
    IF \/ ~data.hasData
       \/ ~data.hasIdentity
       \/ (data.confidence # -1 /\ data.confidence < ConfidenceMin)
    THEN "notIdentified"
    ELSE IF ~data.hasDetails THEN "throws" ELSE "structured"

\* mutant: the catch block only logs the error
showErrorLogsOnly(u, message) == u

\* the catch block of processImages
showError(u, message) == [u EXCEPT !.resultsShown = TRUE, !.content = message]

\* the finally block of processImages, but for `imageCounter = 2`
processImagesFinally(u) == [u EXCEPT !.loading = FALSE, !.scan = TRUE, !.onclick = TRUE]

\* processImages after `await getKey()`: a rejected getKey, a missing key or
\* a failed import end in catch and finally; otherwise generateContent is called
ProcKeyResume(outcome) ==
    /\ procKey > 0
    /\ procKey' = procKey - 1
    /\ IF outcome = "ok" /\ hasKey(geminiKey)
       THEN /\ procGen' = procGen + 1
            /\ extractCalls' = extractCalls + 1
            /\ last' = "ExtractCall"
            /\ UNCHANGED <<imageCounter, ui>>
       ELSE /\ ui' = processImagesFinally(showError(ui,
                        IF outcome # "dbfail" /\ ~hasKey(geminiKey)
                        THEN "errorNoKey" ELSE "errorOther"))
            /\ imageCounter' = N
            /\ last' = "FinalizeFailedEarly"
            /\ UNCHANGED <<procGen, extractCalls>>
    /\ UNCHANGED <<capturedImages, currentDraft, isProcessingFile, compressing, picker,
                   saving, resetL, resetO, stores, procStarts, draftPushes,
                   confirmClicks, retaken>>

\* processImages after `await model.generateContent()`: parse, displayResult,
\* catch and finally
ProcGenResume(resp) ==
    /\ procGen > 0
    /\ procGen' = procGen - 1
    /\ LET view == IF resp.kind = "json" THEN displayResult(resp) ELSE "throws"
       IN /\ ui' = processImagesFinally(
                       IF view = "throws" THEN showError(ui, "errorOther")
                       ELSE [ui EXCEPT !.resultsShown = TRUE, !.content = view])
          /\ last' = IF view = "throws" THEN "FinalizeFailed" ELSE "FinalizeDone"
    /\ imageCounter' = N
    /\ UNCHANGED <<capturedImages, currentDraft, isProcessingFile, compressing, picker,
                   saving, procKey, resetL, resetO, stores, history>>

\* ----------------------------------------------------- displayResult alone
\* confidence values in tenths, 0.0 to 1.0; -1: field missing
AllConfidences == -1..10

\* what JSON.parse can hand to displayResult: null, or an object with or
\* without identity, identity.confidence, details and search_fallback
Payloads ==
    {[kind |-> "json", hasData |-> FALSE, hasIdentity |-> FALSE, confidence |-> -1,
      hasDetails |-> FALSE, hasFallback |-> FALSE]}
    \cup {[kind |-> "json", hasData |-> TRUE, hasIdentity |-> FALSE, confidence |-> -1,
           hasDetails |-> d, hasFallback |-> l] : d \in BOOLEAN, l \in BOOLEAN}
    \cup {[kind |-> "json", hasData |-> TRUE, hasIdentity |-> TRUE, confidence |-> c,
           hasDetails |-> d, hasFallback |-> l] :
              c \in AllConfidences, d \in BOOLEAN, l \in BOOLEAN}

\* the links block of either view: `data?.search_fallback ? ... : ''` and
\* buildFallbackLinks, which returns '' without a fallback
buildFallbackLinks(data) == data.hasData /\ data.hasFallback

\* displayResult(data) is called
DisplayStep ==
    /\ display.stage = "parsed"
    /\ display' = [stage |-> "shown", data |-> display.data,
                    view |-> displayResult(display.data),
                    links |-> buildFallbackLinks(display.data)]
    /\ UNCHANGED <<wizard, front, proxy, canvas, trip, worker>>

\* the next response is parsed
DisplayAgain ==
    /\ display.stage = "shown"
    /\ \E d \in Payloads : display' = [stage |-> "parsed", data |-> d]
    /\ UNCHANGED <<wizard, front, proxy, canvas, trip, worker>>

DisplayInit ==
    /\ WizardInit
    /\ geminiKey = "k1"
    /\ front = FrontClosed
    /\ \E d \in Payloads : display = [stage |-> "parsed", data |-> d]
    /\ proxy = NoRequest
    /\ canvas = NoImage
    /\ trip = NoTrip
    /\ worker = NoWorker

DisplayNext == DisplayStep \/ DisplayAgain

DisplaySpec == DisplayInit /\ [][DisplayNext]_vars

\* ------------------------------------------------------------------ reset
\* mutant: the delete is issued on the wrong key
clearSessionWrongKey(ok) ==
    session' = session

\* clearSession after openDB: deletes the record; a failure is swallowed
clearSession(ok) ==
    session' = IF ok THEN NoSession ELSE session

\* the scanButton listener's reset flow after `await clearSession()`
ResetListenerResume(ok) ==
    /\ resetL > 0
    /\ resetL' = resetL - 1
    /\ clearSession(ok)
    /\ imageCounter' = 0
    /\ capturedImages' = <<>>
    /\ ui' = showCurrentStep([ui EXCEPT !.content = "empty"], 0)
    /\ last' = IF ok THEN "ResetCleared" ELSE "ResetClearFailed"
    /\ UNCHANGED <<currentDraft, isProcessingFile, compressing, picker, saving, procKey,
                   procGen, resetO, geminiKey, history>>

\* scanButton.onclick after `await clearSession()`: window.location.reload()
ResetOnclickResume(ok) ==
    /\ resetO > 0
    /\ clearSession(ok)
    /\ PageState(IF ok THEN "ResetReload" ELSE "ResetReloadClearFailed")
    /\ UNCHANGED geminiKey

\* the error view's button: onclick="location.reload()"
ErrorReloadClick ==
    /\ ui.resultsShown
    /\ ui.content \in {"errorNoKey", "errorOther"}
    /\ CanClick
    /\ PageState("ErrorReload")
    /\ UNCHANGED stores

\* ---------------------------------------------------------- specification
Next ==
    \/ PageLoad /\ UNCHANGED others
    \/ SaveKey(TRUE) /\ UNCHANGED others
    \/ DeleteKey(TRUE) /\ UNCHANGED others
    \/ ScanClick /\ UNCHANGED others
    \/ PickCancel /\ UNCHANGED others
    \/ \E f \in Files : FileChange(f) /\ UNCHANGED others
    \/ CompressDone /\ UNCHANGED others
    \/ ImageError /\ UNCHANGED others
    \/ RetakeClick /\ UNCHANGED others
    \/ ConfirmClick /\ UNCHANGED others
    \/ \E ok \in BOOLEAN : ConfirmResume(ok) /\ UNCHANGED others
    \/ \E outcome \in {"dbfail", "importfail", "ok"} : ProcKeyResume(outcome) /\ UNCHANGED others
    \/ \E resp \in Responses : ProcGenResume(resp) /\ UNCHANGED others
    \/ \E ok \in BOOLEAN : ResetListenerResume(ok) /\ UNCHANGED others
    \/ \E ok \in BOOLEAN : ResetOnclickResume(ok) /\ UNCHANGED others
    \/ ErrorReloadClick /\ UNCHANGED others

Spec == Init /\ [][Next]_vars

\* ------------------------------------------------- lookup variant: the page
\* showResult(result)
showResult(f, status) ==
    [f EXCEPT !.result = TRUE, !.start = FALSE, !.preview = FALSE, !.scan = FALSE,
              !.content = status]

\* startCamera up to `await getUserMedia()`: the tracks of a stream are stopped
startCamera(f) ==
    [f EXCEPT !.currentStream = IF @ = "null" THEN "null" ELSE "stopped",
              !.camP = @ + 1]

\* the user reloads or reopens the page
FrontReload ==
    /\ front.loaded
    /\ front' = FrontLoaded(front.storedKey)

\* init() after `await getApiKey()`; a rejected read ends init()
FrontInitResume(ok) ==
    /\ front.loaded
    /\ front.initP > 0
    /\ front' = IF ok
                THEN [front EXCEPT !.initP = 0,
                                   !.apiKey = front.storedKey,
                                   !.modal = @ \/ ~hasKey(front.storedKey),
                                   !.last = "Init"]
                ELSE [front EXCEPT !.initP = 0, !.last = "InitFailed"]

\* saveApiKeyBtn click with a non-empty value, up to `await setApiKey(apiKey)`
FrontSaveKeyClick ==
    /\ front.loaded
    /\ front.modal
    /\ front.saveP < MaxPending
    /\ front' = [front EXCEPT !.apiKey = "k1", !.saveP = @ + 1, !.last = "SaveKeyClick"]

\* setApiKey settles: the modal is hidden, or the handler ends on the rejection
FrontSaveKeyResume(ok) ==
    /\ front.loaded
    /\ front.saveP > 0
    /\ front' = IF ok
                THEN [front EXCEPT !.saveP = @ - 1, !.storedKey = "k1", !.modal = FALSE,
                                   !.last = "KeySaved"]
                ELSE [front EXCEPT !.saveP = @ - 1, !.last = "KeySaveFailed"]

\* startScanBtn click, up to `await startCamera()`
FrontStartScanClick ==
    /\ front.loaded
    /\ front.start
    /\ front.camP < MaxPending
    /\ front' = startCamera([front EXCEPT !.capturedImages = <<>>, !.step = 0,
                                          !.result = FALSE, !.preview = FALSE,
                                          !.start = FALSE, !.scan = TRUE,
                                          !.last = "StartScan"])

\* getUserMedia and play() settle; a rejection is alerted or logged
FrontCameraResume(ok) ==
    /\ front.loaded
    /\ front.camP > 0
    /\ front' = IF ok
                THEN [front EXCEPT !.camP = @ - 1, !.currentStream = "live",
                                   !.last = "CameraOn"]
                ELSE [front EXCEPT !.camP = @ - 1, !.last = "CameraFailed"]

\* captureBtn click: no await, the frame is pushed at once
FrontCaptureClick ==
    /\ front.loaded
    /\ front.scan
    /\ front' = IF front.currentStream = "null"
                THEN [front EXCEPT !.last = "CaptureIgnored"]
                ELSE IF front.step + 1 >= N
                THEN [front EXCEPT !.capturedImages = Append(@, "frame"),
                                   !.step = @ + 1,
                                   !.currentStream = "stopped",
                                   !.scan = FALSE, !.preview = TRUE,
                                   !.last = "Capture"]
                ELSE [front EXCEPT !.capturedImages = Append(@, "frame"),
                                   !.step = @ + 1,
                                   !.last = "Capture"]

\* retakeBtn click
FrontRetakeClick ==
    /\ front.loaded
    /\ front.preview
    /\ front.camP < MaxPending
    /\ front' = startCamera([front EXCEPT !.capturedImages = <<>>, !.step = 0,
                                          !.preview = FALSE, !.start = FALSE,
                                          !.result = FALSE, !.scan = TRUE,
                                          !.last = "Retake"])

\* submitBtn click up to `await extractIdentity()`, which first awaits the
\* import of the SDK; without a key the modal is shown and the handler returns
FrontSubmitClick ==
    /\ front.loaded
    /\ front.preview
    /\ IF ~hasKey(front.apiKey)
       THEN front' = [front EXCEPT !.modal = TRUE, !.last = "SubmitBlocked"]
       ELSE /\ front.submits < MaxSubmits
            /\ front' = [front EXCEPT !.loading = TRUE, !.importP = @ + 1,
                                      !.submits = @ + 1, !.last = "Submit"]

\* the import settles: generateContent is called, or the handler's catch and
\* finally run
FrontImportResume(ok) ==
    /\ front.loaded
    /\ front.importP > 0
    /\ front' = IF ok
                THEN [front EXCEPT !.importP = @ - 1, !.genP = @ + 1,
                                   !.extractCalls = @ + 1, !.last = "ExtractCall"]
                ELSE [showResult(front, "Not_Found") EXCEPT
                          !.importP = @ - 1, !.loading = FALSE, !.last = "SubmitFailed"]

\* mutant: text that JSON.parse refuses ends the handler like a rejection
FrontGenResumeParseThrows(resp) ==
    /\ front.loaded
    /\ front.genP > 0
    /\ front' = IF resp \in {"reject", "badjson"}
                THEN [showResult(front, "Not_Found") EXCEPT
                          !.genP = @ - 1, !.loading = FALSE, !.last = "ExtractFailed"]
                ELSE [front EXCEPT !.genP = @ - 1, !.lookupP = @ + 1,
                                   !.last = "Extracted"]

\* generateContent settles: a rejection ends in catch and finally; text that
\* JSON.parse refuses becomes {}; the handler goes on to the barcode and the fetch
FrontGenResume(resp) ==
    /\ front.loaded
    /\ front.genP > 0
    /\ front' = IF resp = "reject"
                THEN [showResult(front, "Not_Found") EXCEPT
                          !.genP = @ - 1, !.loading = FALSE, !.last = "ExtractFailed"]
                ELSE [front EXCEPT !.genP = @ - 1, !.lookupP = @ + 1,
                                   !.last = IF resp = "badjson" THEN "ExtractEmpty"
                                            ELSE "Extracted"]

\* fetch('/api/identify') and response.json() settle: showResult, finally
FrontLookupResume(status) ==
    /\ front.loaded
    /\ front.lookupP > 0
    /\ front' = [showResult(front, IF status = "OK" THEN "OK" ELSE "Not_Found") EXCEPT
                     !.lookupP = @ - 1, !.loading = FALSE,
                     !.last = IF status = "failed" THEN "LookupFailed" ELSE "LookupDone"]

\* newScanBtn click
FrontNewScanClick ==
    /\ front.loaded
    /\ front.result
    /\ front' = [front EXCEPT !.result = FALSE, !.capturedImages = <<>>, !.step = 0,
                              !.start = TRUE, !.last = "NewScan"]

FrontNext ==
    \/ FrontReload /\ UNCHANGED <<wizard, display, proxy, canvas, trip, worker>>
    \/ \E ok \in BOOLEAN : FrontInitResume(ok) /\ UNCHANGED <<wizard, display, proxy, canvas, trip, worker>>
    \/ FrontSaveKeyClick /\ UNCHANGED <<wizard, display, proxy, canvas, trip, worker>>
    \/ \E ok \in BOOLEAN : FrontSaveKeyResume(ok) /\ UNCHANGED <<wizard, display, proxy, canvas, trip, worker>>
    \/ FrontStartScanClick /\ UNCHANGED <<wizard, display, proxy, canvas, trip, worker>>
    \/ \E ok \in BOOLEAN : FrontCameraResume(ok) /\ UNCHANGED <<wizard, display, proxy, canvas, trip, worker>>
    \/ FrontCaptureClick /\ UNCHANGED <<wizard, display, proxy, canvas, trip, worker>>
    \/ FrontRetakeClick /\ UNCHANGED <<wizard, display, proxy, canvas, trip, worker>>
    \/ FrontSubmitClick /\ UNCHANGED <<wizard, display, proxy, canvas, trip, worker>>
    \/ \E ok \in BOOLEAN : FrontImportResume(ok) /\ UNCHANGED <<wizard, display, proxy, canvas, trip, worker>>
    \/ \E resp \in {"reject", "badjson", "json"} : FrontGenResume(resp) /\ UNCHANGED <<wizard, display, proxy, canvas, trip, worker>>
    \/ \E status \in {"OK", "Not_Found", "failed"} : FrontLookupResume(status) /\ UNCHANGED <<wizard, display, proxy, canvas, trip, worker>>
    \/ FrontNewScanClick /\ UNCHANGED <<wizard, display, proxy, canvas, trip, worker>>

\* either page is open: the wizard, or the lookup variant with or without a
\* stored key
VariantsInit ==
    /\ WizardInit
    /\ front \in {FrontClosed, FrontLoaded(NoKey), FrontLoaded("k1")}
    /\ front.loaded => geminiKey = NoKey
    /\ display = NoDisplay
    /\ proxy = NoRequest
    /\ canvas = NoImage
    /\ trip = NoTrip
    /\ worker = NoWorker

VariantsNext ==
    \/ ~front.loaded /\ Next
    \/ FrontNext

VariantsSpec == VariantsInit /\ [][VariantsNext]_vars

\* ------------------------------------------ lookup handler (proxy endpoint)
\* `undefined`: a field the JSON does not carry
Absent == "absent"

\* JavaScript truthiness of a field that is absent or a string
Truthy(v) == v # Absent /\ v # ""

\* an array-valued field: absent, or its elements
NoArr == [present |-> FALSE, items |-> <<>>]
Arr(items) == [present |-> TRUE, items |-> items]

DigitChars == <<"0", "1", "2", "3", "4", "5", "6", "7", "8", "9">>

\* /[^0-9]/ does not match c
IsDigit(c) == \E i \in 1..Len(DigitChars) : DigitChars[i] = c

\* a string of n digits, as its characters
Digits(n) == [i \in 1..n |-> DigitChars[(i % Len(DigitChars)) + 1]]

\* data.barcode as its characters; <<>> is '' or a missing barcode
Barcodes ==
    {<<>>, <<"A", "B", "C">>,
     Digits(9), Digits(10), Digits(12), Digits(13), Digits(14),
     <<"0", "1", "2", "3", "4", "-", "5", "6", "7", "8", "-", "9", "0">>}

\* data.identity: the fields the handler reads
Identities ==
    [ndc : {Absent, "", "0002-1433"},
     product_ndc : {Absent, "50090-0481"},
     brand_name : {Absent, "", "Acme"},
     generic_name : {Absent, "ibuprofen"},
     dosage_form : {Absent, "TABLET"}]

\* `data.identity || {}`
NoIdentity ==
    [ndc |-> Absent, product_ndc |-> Absent, brand_name |-> Absent,
     generic_name |-> Absent, dosage_form |-> Absent]

\* the request body: no text at all (parsed as '{}'); text JSON.parse refuses;
\* JSON null; a JSON number or string; or an object, whose barcode is a string
\* or a non-zero number
Bodies ==
    {[kind |-> k, identity |-> NoIdentity, barcode |-> <<>>, barcodeType |-> "string"] :
         k \in {"empty", "malformed", "null", "scalar"}}
    \cup {[kind |-> "object", identity |-> i, barcode |-> b, barcodeType |-> "string"] :
              i \in Identities, b \in Barcodes}
    \cup {[kind |-> "object", identity |-> i, barcode |-> Digits(10),
           barcodeType |-> "number"] :
              i \in {NoIdentity, [NoIdentity EXCEPT !.ndc = "0002-1433"]}}

Requests ==
    {[method |-> "POST", body |-> b] : b \in Bodies}
    \cup {[method |-> m, body |-> b] :
              m \in {"GET", "PUT"},
              b \in {x \in Bodies : x.kind # "object" \/ x.barcode = Digits(10)}}

\* the query the handler builds: endpoint "ndc" with an identity code or a
\* barcode's digits (both through encodeURIComponent), endpoint "label" with
\* the parts it joins by +AND+ (not encoded), or none
NoQuery == [endpoint |-> "none", code |-> Absent, digits |-> <<>>, parts |-> <<>>]

labelParts(identity) ==
    (IF Truthy(identity.brand_name)
     THEN << <<"openfda.brand_name.exact", identity.brand_name>> >> ELSE <<>>)
    \o (IF Truthy(identity.generic_name)
        THEN << <<"openfda.generic_name.exact", identity.generic_name>> >> ELSE <<>>)
    \o (IF Truthy(identity.dosage_form)
        THEN << <<"openfda.dosage_form.exact", identity.dosage_form>> >> ELSE <<>>)

\* mutant: the names are tried before the codes
chooseQueryNamesFirst(identity, barcode) ==
    LET digitsOnly == SelectSeq(barcode, IsDigit)
    IN IF Truthy(identity.brand_name) \/ Truthy(identity.generic_name)
       THEN [NoQuery EXCEPT !.endpoint = "label", !.parts = labelParts(identity)]
       ELSE IF Truthy(identity.ndc) \/ Truthy(identity.product_ndc)
       THEN [NoQuery EXCEPT !.endpoint = "ndc",
                            !.code = IF Truthy(identity.ndc) THEN identity.ndc
                                     ELSE identity.product_ndc]
       ELSE IF Len(digitsOnly) \in {10, 11, 12}
       THEN [NoQuery EXCEPT !.endpoint = "ndc", !.digits = digitsOnly]
       ELSE NoQuery

\* the if / else if chain that sets queryUrl
chooseQuery(identity, barcode) ==
    LET digitsOnly == SelectSeq(barcode, IsDigit)
    IN IF Truthy(identity.ndc) \/ Truthy(identity.product_ndc)
       THEN [NoQuery EXCEPT !.endpoint = "ndc",
                            !.code = IF Truthy(identity.ndc) THEN identity.ndc
                                     ELSE identity.product_ndc]
       ELSE IF Len(digitsOnly) \in {10, 11, 12}
       THEN [NoQuery EXCEPT !.endpoint = "ndc", !.digits = digitsOnly]
       ELSE IF Truthy(identity.brand_name) \/ Truthy(identity.generic_name)
       THEN [NoQuery EXCEPT !.endpoint = "label", !.parts = labelParts(identity)]
       ELSE NoQuery

\* one element of the upstream `results`: null, or an object with the openfda
\* arrays and the plain fields mapOpenFdaResult copies
NullResult ==
    [isNull |-> TRUE, brand_name |-> NoArr, generic_name |-> NoArr, product_ndc |-> NoArr,
     route |-> NoArr, dosage_form |-> NoArr, indications |-> Absent]
BareResult == [NullResult EXCEPT !.isNull = FALSE]
FullResult ==
    [isNull |-> FALSE,
     brand_name |-> Arr(<<"Acme", "Acme PM">>),
     generic_name |-> Arr(<<"ibuprofen">>),
     product_ndc |-> Arr(<<"0002-1433", "0002-1434">>),
     route |-> Arr(<<"ORAL">>),
     dosage_form |-> Arr(<<"TABLET">>),
     indications |-> "pain"]
PartialResult ==
    [BareResult EXCEPT !.brand_name = Arr(<<"Zeta">>), !.generic_name = Arr(<<>>)]

\* what doFetch settles with: a rejection, or a response with its status and
\* what resp.json() gives (a rejection, or an object with or without results)
Upstreams ==
    {[kind |-> "error", status |-> 0, json |-> "none", hasResults |-> FALSE,
      results |-> <<>>]}
    \cup {[kind |-> "response", status |-> st, json |-> "object", hasResults |-> TRUE,
           results |-> <<FullResult>>] : st \in {404, 500}}
    \cup {[kind |-> "response", status |-> 200, json |-> j, hasResults |-> FALSE,
           results |-> <<>>] : j \in {"rejects", "object"}}
    \cup {[kind |-> "response", status |-> 200, json |-> "object", hasResults |-> TRUE,
           results |-> r] :
              r \in {<<>>, <<FullResult>>, <<PartialResult>>, <<BareResult>>,
                     <<NullResult>>, <<FullResult, PartialResult>>,
                     <<PartialResult, FullResult>>}}

\* `drug` while undefined
NoDrug ==
    [found |-> FALSE, brand_name |-> Absent, generic_name |-> Absent, ndc |-> Absent,
     route |-> Absent, dosage_form |-> Absent, indications |-> Absent]

\* `a ? a[0] : undefined`
firstOf(a) == IF a.present /\ Len(a.items) > 0 THEN a.items[1] ELSE Absent

\* mutant: the last element of each array is taken
lastOf(a) == IF a.present /\ Len(a.items) > 0 THEN a.items[Len(a.items)] ELSE Absent

mapOpenFdaResultLast(result) ==
    IF result.isNull THEN NoDrug
    ELSE [found |-> TRUE,
          brand_name |-> lastOf(result.brand_name),
          generic_name |-> lastOf(result.generic_name),
          ndc |-> lastOf(result.product_ndc),
          route |-> lastOf(result.route),
          dosage_form |-> lastOf(result.dosage_form),
          indications |-> result.indications]

mapOpenFdaResult(result) ==
    IF result.isNull THEN NoDrug
    ELSE [found |-> TRUE,
          brand_name |-> firstOf(result.brand_name),
          generic_name |-> firstOf(result.generic_name),
          ndc |-> firstOf(result.product_ndc),
          route |-> firstOf(result.route),
          dosage_form |-> firstOf(result.dosage_form),
          indications |-> result.indications]

\* mutant: the upstream status is not looked at
hasMatchAnyStatus(up) ==
    /\ up.kind = "response"
    /\ up.json = "object"
    /\ up.hasResults
    /\ Len(up.results) > 0

\* `resp && resp.status === 200`, then `results.length > 0`, inside the try
hasMatch(up) ==
    /\ up.kind = "response"
    /\ up.status = 200
    /\ up.json = "object"
    /\ up.hasResults
    /\ Len(up.results) > 0

\* what res.end sends
Reply(code, error, status, drug, sources) ==
    [code |-> code, error |-> error, status |-> status, drug |-> drug, sources |-> sources]

NotFoundReply == Reply(200, Absent, "Not_Found", NoDrug, <<>>)

respond(p, reply) == [p EXCEPT !.stage = "done", !.responses = Append(@, reply)]

Arrived(req) ==
    [stage |-> "arrived", req |-> req, queries |-> <<>>, responses |-> <<>>,
     threw |-> FALSE]

\* mutant: the method is not checked
HandlerStartAnyMethod ==
    /\ proxy.stage = "arrived"
    /\ proxy' = [proxy EXCEPT !.stage = "reading"]
    /\ UNCHANGED <<wizard, front, display, canvas, trip, worker>>

\* handler, up to the await of the body: a method other than POST gets 405
HandlerStart ==
    /\ proxy.stage = "arrived"
    /\ proxy' = IF proxy.req.method # "POST"
                THEN respond(proxy, Reply(405, "Method not allowed", Absent, NoDrug, <<>>))
                ELSE [proxy EXCEPT !.stage = "reading"]
    /\ UNCHANGED <<wizard, front, display, canvas, trip, worker>>

\* the body has been read: JSON.parse (400 when it throws), the reads of
\* data.identity and of barcode.replace (a TypeError on null data or on a
\* barcode that is not a string leaves the handler, and the server's wrapper
\* answers 500), the choice of the query, then doFetch or Not_Found at once
BodyEnd ==
    /\ proxy.stage = "reading"
    /\ LET body == proxy.req.body
           query == chooseQuery(body.identity, body.barcode)
       IN proxy' =
            IF body.kind = "malformed"
            THEN respond(proxy, Reply(400, "Invalid JSON", Absent, NoDrug, <<>>))
            ELSE IF body.kind = "null" \/ body.barcodeType # "string"
            THEN [respond(proxy, Reply(500, "Internal Server Error", Absent, NoDrug, <<>>))
                     EXCEPT !.threw = TRUE]
            ELSE IF query.endpoint # "none"
            THEN [proxy EXCEPT !.stage = "fetching", !.queries = Append(@, query)]
            ELSE respond(proxy, NotFoundReply)
    /\ UNCHANGED <<wizard, front, display, canvas, trip, worker>>

\* mutant: without a match the label query is tried next
FetchSettleFallsThrough(up) ==
    /\ proxy.stage = "fetching"
    /\ LET issued == proxy.queries[Len(proxy.queries)]
           drug == IF hasMatch(up) THEN mapOpenFdaResult(up.results[1]) ELSE NoDrug
           names == [NoQuery EXCEPT !.endpoint = "label",
                                    !.parts = labelParts(proxy.req.body.identity)]
       IN proxy' =
            IF drug.found
            THEN respond(proxy, Reply(200, Absent, "OK", drug,
                                      <<[name |-> "openFDA", url |-> issued]>>))
            ELSE IF issued.endpoint = "ndc" /\ Len(names.parts) > 0
            THEN [proxy EXCEPT !.queries = Append(@, names)]
            ELSE respond(proxy, NotFoundReply)
    /\ UNCHANGED <<wizard, front, display, canvas, trip, worker>>

\* doFetch settles: the try block, its catch, and the response
FetchSettle(up) ==
    /\ proxy.stage = "fetching"
    /\ LET issued == proxy.queries[Len(proxy.queries)]
           drug == IF hasMatch(up) THEN mapOpenFdaResult(up.results[1]) ELSE NoDrug
       IN proxy' =
            IF drug.found
            THEN respond(proxy, Reply(200, Absent, "OK", drug,
                                      <<[name |-> "openFDA", url |-> issued]>>))
            ELSE respond(proxy, NotFoundReply)
    /\ UNCHANGED <<wizard, front, display, canvas, trip, worker>>

ProxyInit ==
    /\ WizardInit
    /\ geminiKey = "k1"
    /\ front = FrontClosed
    /\ display = NoDisplay
    /\ \E req \in Requests : proxy = Arrived(req)
    /\ canvas = NoImage
    /\ trip = NoTrip
    /\ worker = NoWorker

ProxyNext ==
    \/ HandlerStart
    \/ BodyEnd
    \/ \E up \in Upstreams : FetchSettle(up)

ProxySpec == ProxyInit /\ [][ProxyNext]_vars

\* ------------------------------------------------- compressImage: scaling
\* const MAX = 1024
MAX == 1024

\* img.width and img.height of the images tried
Dims == {1, 2, 3, 512, 683, 1023, 1024, 1025, 1536, 2047, 2048, 3000, 4032}

\* Math.round(a / b) for positive integers: halves round up
Round(a, b) == (2 * a + b) \div (2 * b)

\* mutant: the width is tested alone, without `w > h`
scaledNoCompare(w, h) ==
    IF w > MAX THEN [width |-> MAX, height |-> Round(h * MAX, w)]
    ELSE IF h > MAX THEN [width |-> Round(w * MAX, h), height |-> MAX]
    ELSE [width |-> w, height |-> h]

\* the if / else if that sets w and h before the canvas is sized
scaled(w, h) ==
    IF w > h /\ w > MAX THEN [width |-> MAX, height |-> Round(h * MAX, w)]
    ELSE IF h > MAX THEN [width |-> Round(w * MAX, h), height |-> MAX]
    ELSE [width |-> w, height |-> h]

\* img.onload: the canvas gets the scaled size
ScaleStep ==
    /\ canvas.stage = "loaded"
    /\ canvas' = [stage |-> "drawn", img |-> canvas.img,
                  out |-> scaled(canvas.img.width, canvas.img.height)]
    /\ UNCHANGED <<wizard, front, display, proxy, trip, worker>>

ScaleInit ==
    /\ WizardInit
    /\ geminiKey = "k1"
    /\ front = FrontClosed
    /\ display = NoDisplay
    /\ proxy = NoRequest
    /\ \E w \in Dims, h \in Dims :
           canvas = [stage |-> "loaded", img |-> [width |-> w, height |-> h]]
    /\ trip = NoTrip
    /\ worker = NoWorker

ScaleNext == ScaleStep

ScaleSpec == ScaleInit /\ [][ScaleNext]_vars

\* ------------------------------------------- saveSession and loadSession
\* mutant: only the counter is restored
loadSessionCounterOnly(ok) ==
    IF ok /\ session.present
    THEN imageCounter' = session.imageCounter /\ UNCHANGED capturedImages
    ELSE UNCHANGED <<imageCounter, capturedImages>>

\* loadSession after openDB and the get: a record with a numeric imageCounter
\* is copied into memory; a failed open or get, or no record, changes nothing
loadSession(ok) ==
    IF ok /\ session.present
    THEN imageCounter' = session.imageCounter /\ capturedImages' = session.capturedImages
    ELSE UNCHANGED <<imageCounter, capturedImages>>

\* what loadSession returns
loadSessionResult(ok) == ok /\ session.present

\* the wizard's state that neither function touches
untouched == <<currentDraft, isProcessingFile, compressing, picker, ui, saving, procKey,
               procGen, resetL, resetO, geminiKey, procStarts, extractCalls, draftPushes,
               confirmClicks, retaken, last, front, display, proxy, canvas, worker>>

\* the image sequences and counters the wizard can hold: the counter is the
\* number of images, or the 2 the finally block of processImages forces
TripImages ==
    {<<>>} \cup {<<DataUri(a)>> : a \in {"f1", "f2"}}
    \cup {<<DataUri(a), DataUri(b)>> : a, b \in {"f1", "f2"}}

\* saveSession runs to its end: the put is applied, or the failure swallowed
TripSave(ok) ==
    /\ trip.phase = "start"
    /\ saveSession(ok)
    /\ trip' = [phase |-> "saved", saveOk |-> ok, loadOk |-> FALSE, returned |-> FALSE,
                reloaded |-> FALSE, was |-> session,
                imageCounter |-> imageCounter, capturedImages |-> capturedImages]
    /\ UNCHANGED <<imageCounter, capturedImages, untouched>>

\* the page is loaded again: memory starts over, the store survives
TripReload ==
    /\ trip.phase = "saved"
    /\ ~trip.reloaded
    /\ imageCounter' = 0
    /\ capturedImages' = <<>>
    /\ trip' = [trip EXCEPT !.reloaded = TRUE]
    /\ UNCHANGED <<session, untouched>>

\* loadSession runs to its end
TripLoad(ok) ==
    /\ trip.phase = "saved"
    /\ loadSession(ok)
    /\ trip' = [trip EXCEPT !.phase = "loaded", !.loadOk = ok,
                            !.returned = loadSessionResult(ok)]
    /\ UNCHANGED <<session, untouched>>

TripInit ==
    /\ WizardInit
    /\ geminiKey = "k1"
    /\ front = FrontClosed
    /\ display = NoDisplay
    /\ proxy = NoRequest
    /\ canvas = NoImage
    /\ trip = [phase |-> "start"]
    /\ worker = NoWorker

\* the wizard has reached some step, with or without an older record stored
TripStart ==
    /\ trip.phase = "start"
    /\ \E images \in TripImages, counter \in 0..N :
           /\ counter \in {Len(images), N}
           /\ imageCounter' = counter
           /\ capturedImages' = images
    /\ \E old \in {NoSession, SessionRecord(1, <<DataUri("f2")>>)} : session' = old
    /\ trip' = trip
    /\ UNCHANGED untouched

TripNext ==
    \/ TripStart
    \/ \E ok \in BOOLEAN : TripSave(ok)
    \/ TripReload
    \/ \E ok \in BOOLEAN : TripLoad(ok)

TripSpec == TripInit /\ [][TripNext]_vars

\* ---------------------------------------------------------- service worker
\* const CACHE_NAME, and a cache an earlier version of the worker left
CACHE_NAME == "drug-pwa-cache-v2"
OldCache == "drug-pwa-cache-v1"

\* const ASSETS
ASSETS == {"/", "/index.html", "/style.css", "/script.js", "/manifest.json", "/icon.png"}

\* the URLs requested: two precached ones, one of the origin that is not
\* precached, and the SDK the page imports from another origin
Urls == {"/", "/script.js", "/favicon.ico", "https://esm.run/@google/generative-ai"}

SameOrigin(url) == url \in ASSETS \cup {"/favicon.ico"}

Methods == {"GET", "HEAD", "POST"}

NoReq == [method |-> "none", url |-> "none"]
NoNet == [kind |-> "none", status |-> 0, type |-> "none"]
NoAnswer == [from |-> "none", url |-> "none", status |-> 0]

\* what fetch(req) settles with: a rejection, or a response whose type is
\* 'basic' for the worker's origin and 'cors' or 'opaque' for another
NetResults(url) ==
    {[kind |-> "error", status |-> 0, type |-> "none"]}
    \cup (IF SameOrigin(url)
          THEN {[kind |-> "response", status |-> st, type |-> "basic"] :
                    st \in {200, 304, 404}}
          ELSE {[kind |-> "response", status |-> st, type |-> "cors"] :
                    st \in {200, 404}}
               \cup {[kind |-> "response", status |-> 0, type |-> "opaque"]})

AllNetResults == UNION {NetResults(url) : url \in Urls}

\* a cache.put call: the request's URL and the response's status and type
AllPuts == [url : Urls, status : {0, 200, 304, 404}, type : {"basic", "cors", "opaque"}]

\* mutant: every response is cached
cacheableAny(res) == res.kind = "response"

\* `res && res.status === 200 && res.type === 'basic'`
cacheable(res) == res.kind = "response" /\ res.status = 200 /\ res.type = "basic"

\* the worker script has been registered and its install event is dispatched
WorkerRegistered(old) ==
    [stage |-> "installing",
     caches |-> IF old THEN {OldCache} ELSE {},   \* names of the caches that exist
     cache |-> {},            \* URLs with an entry in CACHE_NAME
     req |-> NoReq,           \* event.request of the fetch event being handled
     intercepted |-> FALSE,   \* event.respondWith was called for it
     hit |-> FALSE,           \* caches.match(req) found an entry
     netCalls |-> 0,          \* fetch(req) calls of the worker for it
     net |-> NoNet,           \* what fetch(req) settled with
     answer |-> NoAnswer,     \* what respondWith's promise resolved with
     puts |-> {},             \* cache.put calls not yet settled
     stored |-> {},           \* history: the responses cache.put has stored
     events |-> 0,            \* history: fetch events so far
     last |-> "Register"]

\* install: cache.addAll(ASSETS) stores all of them or none; when it rejects
\* the worker is discarded
Install(ok) ==
    /\ worker.stage = "installing"
    /\ worker' = IF ok
                 THEN [worker EXCEPT !.stage = "activating",
                                     !.caches = @ \cup {CACHE_NAME},
                                     !.cache = ASSETS, !.last = "Install"]
                 ELSE [worker EXCEPT !.stage = "redundant",
                                     !.caches = @ \cup {CACHE_NAME},
                                     !.last = "InstallFailed"]
    /\ UNCHANGED <<wizard, front, display, proxy, canvas, trip>>

\* activate: every cache but CACHE_NAME is deleted
Activate ==
    /\ worker.stage = "activating"
    /\ worker' = [worker EXCEPT !.stage = "idle",
                                !.caches = {key \in @ : key = CACHE_NAME},
                                !.last = "Activate"]
    /\ UNCHANGED <<wizard, front, display, proxy, canvas, trip>>

\* fetch listener up to caches.match(req); a method other than GET returns
\* before respondWith and the browser handles the request itself
FetchEvent(method, url) ==
    /\ worker.stage = "idle"
    /\ worker.events < MaxEvents
    /\ worker' = [worker EXCEPT
                      !.stage = IF method # "GET" THEN "idle" ELSE "matching",
                      !.req = [method |-> method, url |-> url],
                      !.intercepted = (method = "GET"),
                      !.hit = FALSE, !.netCalls = 0, !.net = NoNet,
                      !.answer = NoAnswer,
                      !.events = @ + 1,
                      !.last = IF method # "GET" THEN "NotHandled" ELSE "FetchEvent"]
    /\ UNCHANGED <<wizard, front, display, proxy, canvas, trip>>

\* caches.match(req) settles: the entry is the answer, or fetch(req) is called
MatchSettle ==
    /\ worker.stage = "matching"
    /\ worker' = IF worker.req.url \in worker.cache
                 THEN [worker EXCEPT !.stage = "idle", !.hit = TRUE,
                                     !.answer = [from |-> "cache", url |-> worker.req.url,
                                                 status |-> 200],
                                     !.last = "FromCache"]
                 ELSE [worker EXCEPT !.stage = "fetching", !.netCalls = @ + 1,
                                     !.last = "ToNetwork"]
    /\ UNCHANGED <<wizard, front, display, proxy, canvas, trip>>

\* fetch(req) settles: its then, which starts cache.put for a cacheable
\* response without waiting for it, or its catch with caches.match('/')
NetSettle(res) ==
    /\ worker.stage = "fetching"
    /\ res \in NetResults(worker.req.url)
    /\ worker' =
         IF res.kind = "error"
         THEN [worker EXCEPT !.stage = "idle", !.net = res,
                             !.answer = IF "/" \in worker.cache
                                        THEN [from |-> "cache", url |-> "/", status |-> 200]
                                        ELSE NoAnswer,
                             !.last = "Fallback"]
         ELSE [worker EXCEPT !.stage = "idle", !.net = res,
                             !.answer = [from |-> "network", url |-> worker.req.url,
                                         status |-> res.status],
                             !.puts = IF cacheable(res)
                                      THEN @ \cup {[url |-> worker.req.url,
                                                    status |-> res.status,
                                                    type |-> res.type]}
                                      ELSE @,
                             !.last = "FromNetwork"]
    /\ UNCHANGED <<wizard, front, display, proxy, canvas, trip>>

\* caches.open(CACHE_NAME).then(cache.put) settles; a rejection is not handled
PutSettle(p, ok) ==
    /\ worker.stage \in {"idle", "matching", "fetching"}
    /\ p \in worker.puts
    /\ worker' = IF ok
                 THEN [worker EXCEPT !.puts = @ \ {p}, !.cache = @ \cup {p.url},
                                     !.stored = @ \cup {p}]
                 ELSE [worker EXCEPT !.puts = @ \ {p}]
    /\ UNCHANGED <<wizard, front, display, proxy, canvas, trip>>

WorkerInit ==
    /\ WizardInit
    /\ geminiKey = "k1"
    /\ front = FrontClosed
    /\ display = NoDisplay
    /\ proxy = NoRequest
    /\ canvas = NoImage
    /\ trip = NoTrip
    /\ \E old \in BOOLEAN : worker = WorkerRegistered(old)

WorkerNext ==
    \/ \E ok \in BOOLEAN : Install(ok)
    \/ Activate
    \/ \E method \in Methods, url \in Urls : FetchEvent(method, url)
    \/ MatchSettle
    \/ \E res \in AllNetResults : NetSettle(res)
    \/ \E p \in AllPuts, ok \in BOOLEAN : PutSettle(p, ok)

WorkerSpec == WorkerInit /\ [][WorkerNext]_vars

\* ------------------------------------------------------------ derived state
\* the step count recoverable from the persisted image sequence
PersistedSteps == IF session.present THEN Len(session.capturedImages) ELSE 0

NothingPending ==
    saving = 0 /\ procKey = 0 /\ procGen = 0 /\ resetL = 0 /\ resetO = 0

IdleZero == imageCounter = 0 /\ capturedImages = <<>> /\ currentDraft = NoDraft

\* every confirm so far finished before the next one was clicked
SingleConfirms == confirmClicks <= N /\ saving = 0 /\ procStarts <= 1

AfterLoad == last \in {"PageLoad", "ErrorReload", "ResetReload", "ResetReloadClearFailed"}

\* ------------------------------------------------------------------ claims

\* C1: finalization (processImages) is started at most once per page session,
\* whatever sequence of capture, retake and confirm events arrives, repeated
\* confirm clicks during `await saveSession()` included.
C1_FinalizeOnce == procStarts <= 1

\* C2: a draft is appended to capturedImages at most once: a second confirm
\* that arrives while the first is suspended in saveSession is a no-op.
C2_DraftPushedOnce == draftPushes <= 1

\* C3: the number of confirmed images never exceeds N = 2.
C3_AtMostNImages == Len(capturedImages) <= N

\* C4: the step index equals the number of confirmed images and lies in
\* [0, 2], in every reachable state.
C4_CounterIsLength ==
    /\ imageCounter = Len(capturedImages)
    /\ imageCounter \in 0..N

\* C5: on confirm the session is written before the in-memory step index is
\* advanced: while a confirm is inside saveSession the in-memory index never
\* exceeds the step count recoverable from the persisted image sequence.
C5_PersistBeforeAdvance == saving > 0 => imageCounter <= PersistedSteps

\* C6: a retake leaves capturedImages and imageCounter unchanged and only
\* discards the draft; a confirm click that is not ignored appends exactly
\* the draft and advances the index by one.
C6_RetakeKeepsConfirmed ==
    [][ /\ RetakeClick =>
            /\ capturedImages' = capturedImages
            /\ imageCounter' = imageCounter
            /\ currentDraft' = NoDraft
        /\ (ConfirmClick /\ currentDraft # NoDraft) =>
            /\ Len(capturedImages') = Len(capturedImages) + 1
            /\ capturedImages' = Append(capturedImages, currentDraft)
            /\ imageCounter' = imageCounter + 1 ]_vars

\* C6 witness: a retake, a new capture and one confirm click, at step 1
C6_Witness ==
    /\ last = "ConfirmClick"
    /\ retaken
    /\ draftPushes = 1
    /\ imageCounter = 2
    /\ Len(capturedImages) = 2

\* C7: after a decode failure during acquisition the wizard is not stuck:
\* isProcessingFile is eventually cleared, so once no handler is pending any
\* more (only a user event can change the state) it is cleared.
C7_DecodeFailureRecovers ==
    (compressing = Failed /\ NothingPending) => ~isProcessingFile

\* C9: after a successful finalization the persisted session record is
\* cleared without a further user action: once the result is displayed and
\* no handler is pending, no record is left.
C9_ClearedAfterSuccess ==
    (last = "FinalizeDone" /\ NothingPending /\ SingleConfirms) => ~session.present

C10_LoadStartsFresh ==
    AfterLoad => /\ IdleZero
                 /\ NothingPending
                 /\ procStarts = 0
                 /\ extractCalls = 0

\* C10 witness: a page load over a persisted session at step 1
C10_Witness ==
    /\ last = "PageLoad"
    /\ session.present
    /\ session.imageCounter = 1
    /\ Len(session.capturedImages) = 1

\* processImages resumes from `await getKey()`, whatever the read gave
KeyRead == \E outcome \in {"dbfail", "importfail", "ok"} : ProcKeyResume(outcome)

Finalized == last \in {"FinalizeDone", "FinalizeFailed", "FinalizeFailedEarly"}

ErrorShown == ui.resultsShown /\ ui.content \in {"errorNoKey", "errorOther"}

\* C12: every processImages call issues at most one generateContent call; a
\* rejected call or text that JSON.parse refuses ends the call in the rendered
\* error, with no further call; every processImages call ends with the scan
\* button shown and its restart handler (onclick: clearSession, then
\* location.reload) set; and whenever a result or an error is shown and no
\* processImages call is running, either that button is shown with the
\* handler, or the handler has been clicked and its reload is pending.
C12_OneCallThenRestart ==
    /\ [](extractCalls + procKey <= procStarts)
    /\ [][(ProcGenResume(Rejected) \/ ProcGenResume(BadJson)) =>
            /\ ErrorShown'
            /\ last' = "FinalizeFailed"
            /\ extractCalls' = extractCalls
            /\ procGen' = procGen - 1]_vars
    /\ [](Finalized => ui.resultsShown /\ ui.scan /\ ui.onclick)
    /\ []((last = "FinalizeFailed" \/ last = "FinalizeFailedEarly") => ErrorShown)
    /\ []((ui.resultsShown /\ procKey = 0 /\ procGen = 0) =>
            (ui.scan /\ ui.onclick) \/ resetO > 0)

\* C12 witness: the one extraction call of a finalization failed
C12_Witness ==
    /\ last = "FinalizeFailed"
    /\ procStarts = 1
    /\ extractCalls = 1
    /\ NothingPending
    /\ ErrorShown
    /\ ui.scan

\* the data displayResult was called with: nothing usable, or a confidence
\* that is present and below the threshold
NotConfident(d) ==
    \/ ~d.hasData
    \/ ~d.hasIdentity
    \/ (d.confidence # -1 /\ d.confidence < ConfidenceMin)

\* C13 as stated: with a missing result or identity, or a confidence below
\* 0.4, the 'not identified' view is shown with its fallback links; the
\* structured view is shown only when confidence >= 0.4.
C13_LowConfidenceView ==
    display.stage = "shown" =>
        /\ NotConfident(display.data) =>
               display.view = "notIdentified" /\ display.links
        /\ display.view = "structured" => display.data.confidence >= ConfidenceMin

\* C13 amended: with a missing result or identity, or a confidence below 0.4,
\* the 'not identified' view is shown, with the fallback links whenever the
\* result carries search_fallback, and never the structured view; the
\* structured view is shown only for a result with identity and details
\* whose confidence is not below 0.4: at least 0.4, or absent; and it is
\* shown for every such result.
C13_ConfidenceGate ==
    display.stage = "shown" =>
        LET d == display.data
        IN /\ NotConfident(d) =>
                  /\ display.view = "notIdentified"
                  /\ display.links = (d.hasData /\ d.hasFallback)
           /\ display.view = "structured" =>
                  /\ d.hasData /\ d.hasIdentity /\ d.hasDetails
                  /\ (d.confidence >= ConfidenceMin \/ d.confidence = -1)
           /\ (d.hasData /\ d.hasIdentity /\ d.hasDetails
                  /\ d.confidence >= ConfidenceMin) => display.view = "structured"

\* C13 witness: a confidence just below the threshold, shown as not identified
C13_Witness ==
    /\ display.stage = "shown"
    /\ display.data.hasIdentity
    /\ display.data.confidence = ConfidenceMin - 1
    /\ display.data.hasDetails
    /\ display.data.hasFallback
    /\ display.view = "notIdentified"
    /\ display.links

\* ------------------------------------------------- claims: lookup handler
\* the request the handler is working on, once its body has been parsed into
\* the documented shape: an object (or nothing) whose barcode, if any, is a
\* string
Parsed ==
    /\ proxy.stage \in {"fetching", "done"}
    /\ proxy.req.method = "POST"
    /\ proxy.req.body.kind \in {"object", "empty", "scalar"}
    /\ proxy.req.body.barcodeType = "string"

ReqIdentity == proxy.req.body.identity
ReqDigits == SelectSeq(proxy.req.body.barcode, IsDigit)
HasCode == Truthy(ReqIdentity.ndc) \/ Truthy(ReqIdentity.product_ndc)
HasDigits == Len(ReqDigits) = 10 \/ Len(ReqDigits) = 11 \/ Len(ReqDigits) = 12
HasName == Truthy(ReqIdentity.brand_name) \/ Truthy(ReqIdentity.generic_name)

\* the first query the handler issued for the request
Issued == proxy.queries[1]

NoMatch(up) ==
    \/ up.kind = "error"
    \/ up.status # 200
    \/ up.json = "rejects"
    \/ ~up.hasResults
    \/ up.results = <<>>

\* C16: a transport error, an upstream status other than 200 or an empty
\* results list gives HTTP 200 with status Not_Found: nothing is thrown to
\* the caller and the status is never OK.
C16_UpstreamFailureIsNotFound ==
    [][\A up \in Upstreams :
          (FetchSettle(up) /\ NoMatch(up)) =>
              /\ proxy'.stage = "done"
              /\ proxy'.responses = <<NotFoundReply>>
              /\ proxy'.responses[1].code = 200
              /\ proxy'.responses[1].status # "OK"
              /\ ~proxy'.threw]_vars

\* C16 witness: a query was issued and the answer is Not_Found
C16_Witness ==
    /\ proxy.stage = "done"
    /\ Len(proxy.queries) = 1
    /\ proxy.responses = <<NotFoundReply>>
    /\ ~proxy.threw

\* the drug record of the claim: the first element of each openfda array of
\* result, or absent
Projected(result, drug) ==
    /\ drug.found
    /\ \A f \in {"brand_name", "generic_name", "route", "dosage_form"} :
           drug[f] = (IF result[f].present /\ result[f].items # <<>>
                      THEN Head(result[f].items) ELSE Absent)
    /\ drug.ndc = (IF result.product_ndc.present /\ result.product_ndc.items # <<>>
                   THEN Head(result.product_ndc.items) ELSE Absent)

OkReply(reply) == reply.code = 200 /\ reply.status = "OK"

C18_RejectsBadRequests ==
    /\ (proxy.stage # "none" /\ proxy.req.method # "POST") =>
           /\ proxy.queries = <<>>
           /\ proxy.stage = "done" =>
                  Len(proxy.responses) = 1 /\ proxy.responses[1].code = 405
    /\ (proxy.stage # "none" /\ proxy.req.method = "POST"
            /\ proxy.req.body.kind \in {"malformed", "empty"}) =>
           /\ proxy.queries = <<>>
           /\ proxy.stage = "done" =>
                  Len(proxy.responses) = 1 /\ proxy.responses[1].code = 400

\* C18 amended: a request that is not a POST gets 405 and a POST whose body
\* is not empty and not parseable JSON gets 400; no query is issued and one
\* response is sent. (A POST with an empty body is handled as the body {}:
\* no query, 200 Not_Found.)
C18_Rejects405And400 ==
    /\ (proxy.stage # "none" /\ proxy.req.method # "POST") =>
           /\ proxy.queries = <<>>
           /\ proxy.stage \in {"arrived", "done"}
           /\ proxy.stage = "done" =>
                  /\ Len(proxy.responses) = 1
                  /\ proxy.responses[1].code = 405
                  /\ proxy.responses[1].status = Absent
    /\ (proxy.stage # "none" /\ proxy.req.method = "POST"
            /\ proxy.req.body.kind = "malformed") =>
           /\ proxy.queries = <<>>
           /\ proxy.stage = "done" =>
                  /\ Len(proxy.responses) = 1
                  /\ proxy.responses[1].code = 400
                  /\ proxy.responses[1].status = Absent
    /\ (proxy.stage = "done" /\ proxy.req.method = "POST"
            /\ proxy.req.body.kind = "empty") =>
           proxy.queries = <<>> /\ proxy.responses = <<NotFoundReply>>
    /\ proxy.stage \in {"arrived", "reading", "fetching"} => proxy.responses = <<>>

\* C18 witness: a GET has been answered 405
C18_Witness ==
    /\ proxy.stage = "done"
    /\ proxy.req.method = "GET"
    /\ proxy.queries = <<>>
    /\ Len(proxy.responses) = 1
    /\ proxy.responses[1].code = 405

\* ---------------------------------------------------------- claims: scaling
\* s is long-edge-scaled short: short * MAX / long rounded to the nearest
\* integer, halves up
NearestTo(s, short, long) ==
    /\ 2 * long * s <= 2 * short * MAX + long
    /\ 2 * short * MAX + long < 2 * long * (s + 1)

\* C19: for every width W and height H, if max(W, H) > 1024 the output long
\* edge is 1024 and the short edge is round(short * 1024 / long), the long
\* edge staying the long edge; if max(W, H) <= 1024 the output is (W, H).
C19_ScalingLaw ==
    canvas.stage = "drawn" =>
        LET W == canvas.img.width
            H == canvas.img.height
            w == canvas.out.width
            h == canvas.out.height
        IN IF W <= MAX /\ H <= MAX THEN w = W /\ h = H
           ELSE IF W > H THEN w = MAX /\ NearestTo(h, H, W)
           ELSE IF H > W THEN h = MAX /\ NearestTo(w, W, H)
           ELSE w = MAX /\ h = MAX

\* C19 witness: a portrait image with both edges above 1024
C19_Witness ==
    /\ canvas.stage = "drawn"
    /\ canvas.img = [width |-> 3000, height |-> 4032]
    /\ canvas.out = [width |-> 762, height |-> 1024]

FailureView(f) == f.result /\ f.content = "Not_Found" /\ ~f.loading

\* C21 as stated: in the submit handler an extraction failure (the import or
\* generateContent rejecting, or text that JSON.parse refuses) ends the
\* attempt: no request to /api/identify is sent and the failure view is shown.
C21_ExtractionFailureIsTerminal ==
    [][(FrontImportResume(FALSE) \/ FrontGenResume("reject")
            \/ FrontGenResume("badjson")) =>
          /\ front'.lookupP = front.lookupP
          /\ FailureView(front')]_vars

\* C21 amended: a rejected import or generateContent ends the attempt with no
\* request to /api/identify and the failure view shown; text that JSON.parse
\* refuses does not: extractIdentity returns {} and the handler sends the
\* request, leaving the views as they are until the reply; and a submit calls
\* generateContent at most once.
C21_RejectionIsTerminal ==
    /\ [][(FrontImportResume(FALSE) \/ FrontGenResume("reject")) =>
            /\ front'.lookupP = front.lookupP
            /\ FailureView(front')]_vars
    /\ [][FrontGenResume("badjson") =>
            /\ front'.lookupP = front.lookupP + 1
            /\ front'.result = front.result
            /\ front'.content = front.content
            /\ front'.loading = front.loading]_vars
    /\ [](front.loaded =>
            front.extractCalls + front.importP <= front.submits)

\* C21 witness: the one extraction of a submit returned unparsable text and
\* the request to /api/identify is in flight
C21_Witness ==
    /\ front.loaded
    /\ front.last = "ExtractEmpty"
    /\ front.submits = 1
    /\ front.extractCalls = 1
    /\ front.lookupP = 1
    /\ ~front.result

\* ----------------------------------------------- claims: wizard, continued
\* C22 as stated: at most one capture is in flight.  While isProcessingFile
\* is true no file dialog is open, so that no click or change event starts a
\* second acquisition; no file is processed while a draft awaits its review;
\* and isProcessingFile is true only while compressImage is working on a file.
C22_OneCaptureInFlight ==
    /\ isProcessingFile => picker = "closed"
    /\ compressing \in Files => currentDraft = NoDraft
    /\ isProcessingFile => compressing \in Files

\* C26 as stated: whenever no confirm, save or clear of the session is in
\* flight, a persisted session record has the step index and the image
\* sequence that are in memory, also after a page load or the reload of the
\* error view.
C26_StoreMatchesMemory ==
    (saving = 0 /\ resetL = 0 /\ resetO = 0 /\ session.present) =>
        /\ session.imageCounter = imageCounter
        /\ session.capturedImages = capturedImages

\* C27: a failed session write does not stop a confirm.  When saveSession
\* fails the handler goes on as after a success: it clears the draft, then
\* shows the next step, or calls processImages once when imageCounter has
\* reached 2; the store is left as it was, and no error is rendered.
C27_SaveFailureDoesNotBlock ==
    /\ [][ConfirmResume(FALSE) =>
            /\ currentDraft' = NoDraft
            /\ saving' = saving - 1
            /\ session' = session
            /\ IF imageCounter >= N
               THEN /\ procStarts' = procStarts + 1
                    /\ procKey' = procKey + 1
                    /\ ui'.loading /\ ~ui'.review
               ELSE /\ procStarts' = procStarts
                    /\ ui'.scan /\ ~ui'.review /\ ~ui'.resultsShown
            /\ ui'.content = ui.content
            /\ ui'.resultsShown => ui.resultsShown
            /\ <<imageCounter, capturedImages>>' = <<imageCounter, capturedImages>>]_vars
    /\ [](last = "ConfirmSaveFailed" => currentDraft = NoDraft)

\* C27 witness: the save of the second confirm failed and finalization began
C27_Witness ==
    /\ last = "ConfirmSaveFailed"
    /\ SingleConfirms
    /\ imageCounter = N
    /\ Len(capturedImages) = N
    /\ currentDraft = NoDraft
    /\ procStarts = 1
    /\ procKey = 1
    /\ ui.loading
    /\ ~ui.resultsShown

\* ---------------------------------------- claims: lookup handler, continued
\* C23 as stated: with no identity code, a barcode whose digits number 10 to
\* 14 gives the product-code query on those digits.
C23_BarcodeDigits10To14 ==
    (Parsed /\ ~HasCode /\ Len(ReqDigits) \in 10..14) =>
        /\ Len(proxy.queries) >= 1
        /\ Issued.endpoint = "ndc"
        /\ Issued.digits = ReqDigits

\* C25 as stated: for a POST whose body parses as JSON (null, a number or a
\* string, or an object, whatever its barcode is) the handler ends without
\* throwing and sends one response, with HTTP 200 and status OK or Not_Found.
C25_ParsedJsonNeverThrows ==
    (/\ proxy.stage = "done"
     /\ proxy.req.method = "POST"
     /\ proxy.req.body.kind \in {"null", "scalar", "object"}) =>
        /\ ~proxy.threw
        /\ Len(proxy.responses) = 1
        /\ proxy.responses[1].code = 200
        /\ proxy.responses[1].status \in {"OK", "Not_Found"}

\* ------------------------------------------------- claims: service worker
\* the worker has finished with the fetch event of worker.req
Handled == worker.stage = "idle" /\ worker.req # NoReq

\* C24: the fetch listener is cache-first for GET only.  A GET whose request
\* has an entry in the cache is answered with that entry and the worker calls
\* fetch for it not once; a request of another method is left to the browser
\* (no respondWith, no fetch by the worker, no cache change); a response is
\* put in the cache only with status 200 and type 'basic', so that the cache
\* holds the precached assets and such responses; and when fetch rejects the
\* answer is the cache's entry for '/'.
C24_CacheFirstForGet ==
    /\ []((Handled /\ worker.hit) =>
             /\ worker.answer = [from |-> "cache", url |-> worker.req.url, status |-> 200]
             /\ worker.netCalls = 0)
    /\ [][(MatchSettle /\ worker.req.url \in worker.cache) =>
             /\ worker'.hit
             /\ worker'.netCalls = 0
             /\ worker'.stage # "fetching"]_vars
    /\ []((Handled /\ worker.req.method # "GET") =>
             /\ ~worker.intercepted
             /\ worker.netCalls = 0
             /\ worker.answer = NoAnswer)
    /\ [][(\E url \in Urls : FetchEvent("POST", url) \/ FetchEvent("HEAD", url)) =>
             /\ worker'.cache = worker.cache
             /\ worker'.puts = worker.puts
             /\ worker'.stage = "idle"]_vars
    /\ [](worker.stage \in {"idle", "matching", "fetching"} =>
             /\ \A p \in worker.puts \cup worker.stored :
                    p.status = 200 /\ p.type = "basic"
             /\ worker.cache = ASSETS \cup {p.url : p \in worker.stored})
    /\ []((Handled /\ worker.net.kind = "error") =>
             worker.answer = [from |-> "cache", url |-> "/", status |-> 200])

\* C24 witness: a response fetched with status 200 and type 'basic' is in the
\* cache, and a later GET for it was answered from there without a fetch
C24_Witness ==
    /\ Handled
    /\ worker.req = [method |-> "GET", url |-> "/favicon.ico"]
    /\ worker.hit
    /\ worker.netCalls = 0
    /\ worker.answer.from = "cache"
    /\ [url |-> "/favicon.ico", status |-> 200, type |-> "basic"] \in worker.stored

=============================================================================
